---- MODULE Spec2Model ----
(***************************************************************************)
(* A model of WikiExtractor.py: the page scanner (process_data), the       *)
(* nested-delimiter remover (drop_nested), the span dropper (drop_spans),  *)
(* the entity unescaper (unescape), the final cleanup of clean and the     *)
(* paragraph compactor (compact).                                          *)
(*                                                                         *)
(* Texts are TLA+ strings; positions are Python's (0-based, half-open).    *)
(* Python's None is the empty tuple <<>>, a bound value v is <<v>>.        *)
(***************************************************************************)
EXTENDS Integers, Sequences, FiniteSets, TLC

VARIABLES
    input,       \* process_data: the lines of the dump (the iterable input_shadow)
    pos,         \* process_data: number of lines already consumed by the for loop
    line,        \* process_data: the loop variable
    branch,      \* process_data: the arm of the if/elif chain the last line took
    page,        \* process_data: the raw-markup buffer, a list of strings
    id_shadow,   \* process_data: the captured id
    title,       \* process_data: the captured title (unbound until a title tag)
    in_text,     \* process_data: inside a text element
    redirect,    \* process_data: the page carries a redirect marker
    prefix,      \* module global set from the base tag
    counter,     \* module global counting the emitted documents
    sink,        \* what has been written to output_sentences
    pc,          \* "run", "done" (input exhausted) or "raised" (an exception left process_data)
    pages,       \* the page records the dump was rendered from
    dn_tokens,   \* drop_nested: the opens, closes and plain characters text is made of
    dn_pair,     \* drop_nested: open_delim and close_delim
    dn_text,     \* drop_nested: text
    dn_matches,  \* drop_nested: matches
    dn_res,      \* drop_nested: the returned text
    dn_pc,       \* drop_nested: "call" or "done"
    ds_matches,  \* drop_spans: matches, the list of (start, end) pairs
    ds_text,     \* drop_spans: text
    ds_res,      \* drop_spans: the returned text
    ds_pc,       \* drop_spans: "call" or "done"
    un_in,       \* clean: the text before the two calls of unescape
    un_text,     \* clean: text, through the two calls of unescape
    un_pc,       \* clean: "first", "second" (call of unescape due), "done" or "raised"
    co_text,     \* compact: text
    co_lines,    \* compact: text.split('\n')
    co_i,        \* compact: number of lines the for loop has consumed
    co_arm,      \* compact: the arm of the loop body the last line took
    co_page,     \* compact: page, the list of paragraphs
    co_headers,  \* compact: headers, level -> title of the unfilled sections
    co_empty,    \* compact: empty_section
    co_pc,       \* compact: "loop" or "done" (page returned)
    cl_in,       \* clean: text as it reaches the final cleanup
    cl_text,     \* clean: text, through the final cleanup
    cl_old,      \* clean: old_text_len
    cl_new,      \* clean: new_text_len
    cl_run,      \* clean: 1 in the cleanup of cl_in, 2 in the cleanup of what that returned
    cl_first,    \* clean: what the first cleanup returned
    cl_pc        \* clean: "onetime", "loop" or "done" (text returned)

scanVars == <<input, pos, line, branch, page, id_shadow, title, in_text, redirect,
              prefix, counter, sink, pc, pages>>

nestVars == <<dn_tokens, dn_pair, dn_text, dn_matches, dn_res, dn_pc>>

spanVars == <<ds_matches, ds_text, ds_res, ds_pc>>

unescVars == <<un_in, un_text, un_pc>>

compVars == <<co_text, co_lines, co_i, co_arm, co_page, co_headers, co_empty, co_pc>>

cleanVars == <<cl_in, cl_text, cl_old, cl_new, cl_run, cl_first, cl_pc>>

vars == <<scanVars, nestVars, spanVars, unescVars, compVars, cleanVars>>

\* what process_data leaves alone
notScan == <<nestVars, spanVars, unescVars, compVars, cleanVars>>

\* what drop_nested leaves alone
notNest == <<scanVars, spanVars, unescVars, compVars, cleanVars>>

\* what drop_spans leaves alone
notSpan == <<scanVars, nestVars, unescVars, compVars, cleanVars>>

\* what unescape leaves alone
notUnesc == <<scanVars, nestVars, spanVars, compVars, cleanVars>>

\* what compact leaves alone
notComp == <<scanVars, nestVars, spanVars, unescVars, cleanVars>>

\* what the final cleanup of clean leaves alone
notClean == <<scanVars, nestVars, spanVars, unescVars, compVars>>

----------------------------------------------------------------------------
(* Strings, the way Python indexes and slices them.                        *)

None == <<>>
Some(v) == <<v>>

Min(S) == CHOOSE x \in S : \A y \in S : x <= y
Max(S) == CHOOSE x \in S : \A y \in S : x >= y

\* s[i]
At(s, i) == SubSeq(s, i + 1, i + 1)

\* s[a:b] for 0 <= a, b <= len(s); empty when a >= b
Slice(s, a, b) == IF a >= b THEN "" ELSE SubSeq(s, a + 1, b)

\* s.find(c, i) for a one-character c: least index >= i holding c, or -1
Find(s, c, i) ==
    LET S == {j \in i..(Len(s) - 1) : At(s, j) = c}
    IN IF S = {} THEN -1 ELSE Min(S)

\* s.find(sub, i): least index >= i at which sub occurs, or -1
FindStr(s, sub, i) ==
    LET S == {j \in i..(Len(s) - Len(sub)) : SubSeq(s, j + 1, j + Len(sub)) = sub}
    IN IF S = {} THEN -1 ELSE Min(S)

\* s.rfind(c) for a one-character c
RFind(s, c) ==
    LET S == {j \in 0..(Len(s) - 1) : At(s, j) = c}
    IN IF S = {} THEN -1 ELSE Max(S)

\* ''.join(list)
RECURSIVE Join(_)
Join(list) == IF list = <<>> THEN "" ELSE Head(list) \o Join(Tail(list))

Lower == {"a","b","c","d","e","f","g","h","i","j","k","l","m",
          "n","o","p","q","r","s","t","u","v","w","x","y","z"}
Upper == {"A","B","C","D","E","F","G","H","I","J","K","L","M",
          "N","O","P","Q","R","S","T","U","V","W","X","Y","Z"}
Digit == {"0","1","2","3","4","5","6","7","8","9"}

\* the regular expression class \w (ASCII)
IsWord(c) == c \in Lower \cup Upper \cup Digit \cup {"_"}

\* end of the longest run of \w characters starting at i
WordEnd(s, i) ==
    LET S == {j \in i..(Len(s) - 1) : ~IsWord(At(s, j))}
    IN IF S = {} THEN Len(s) ELSE Min(S)

----------------------------------------------------------------------------
\* TAGS.search(line), TAGS being the pattern
\*    (.*?)<(/?\w+)[^>]*>(?:([^<]*)(<.*?>)?)?

\* <(/?\w+)[^>]*> matched with its "<" at p: the index of the closing ">", or -1
TagClose(s, p) ==
    LET q == IF p + 1 < Len(s) /\ At(s, p + 1) = "/" THEN p + 2 ELSE p + 1
        r == WordEnd(s, q)
    IN IF q < Len(s) /\ r > q THEN Find(s, ">", r) ELSE -1

\* the position of the first "<" at which the tag pattern matches, or -1.
\* "." does not match a line feed, so group 1 cannot run over one.
TagStart(s) ==
    LET nl == Find(s, "\n", 0)
        S == {p \in 0..(Len(s) - 1) :
                 /\ At(s, p) = "<"
                 /\ TagClose(s, p) >= 0
                 /\ (nl < 0 \/ p < nl)}
    IN IF S = {} THEN -1 ELSE Min(S)

\* the match object: groups 1..3, the span of group 3 and m.lastindex
TagsSearch(s) ==
    LET p == TagStart(s)
    IN IF p < 0 THEN [found |-> FALSE]
       ELSE
        LET gt == TagClose(s, p)
            q == IF At(s, p + 1) = "/" THEN p + 2 ELSE p + 1
            lt == Find(s, "<", gt + 1)
            e3 == IF lt < 0 THEN Len(s) ELSE lt
            gt4 == IF lt < 0 THEN -1 ELSE Find(s, ">", lt + 1)
            nl4 == IF lt < 0 THEN -1 ELSE Find(s, "\n", lt + 1)
            has4 == gt4 >= 0 /\ (nl4 < 0 \/ gt4 < nl4)
        IN [found |-> TRUE,
            g1 |-> Slice(s, 0, p),
            g2 |-> Slice(s, p + 1, WordEnd(s, q)),
            g3 |-> Slice(s, gt + 1, e3),
            start3 |-> gt + 1,
            end3 |-> e3,
            lastindex |-> IF has4 THEN 4 ELSE 3]

----------------------------------------------------------------------------
(* The dumps process_data is run on: an optional site header followed by   *)
(* up to MaxPages pages, each rendered line by line from a page record.    *)

MaxPages == 2

Titles == {"", "A", "N:A"}               \* "" renders no title line
TextForms == {"oneline", "selfclosed", "multi", "unclosed"}
PageRecords ==
    [title : Titles, redirect : BOOLEAN, form : TextForms]
    \cup [title : {"B"}, redirect : {FALSE}, form : {"oneline", "multi"}]

TextLines(form) ==
    CASE form = "oneline"    -> <<"      <text xml:space=\"preserve\">b</text>\n">>
      [] form = "selfclosed" -> <<"      <text bytes=\"0\" />\n">>
      [] form = "multi"      -> <<"      <text xml:space=\"preserve\">b\n", "c\n", "d</text>\n">>
      [] form = "unclosed"   -> <<"      <text xml:space=\"preserve\">b\n">>

PageLines(p) ==
    <<"  <page>\n">>
    \o (IF p.title = "" THEN <<>> ELSE <<"    <title>" \o p.title \o "</title>\n">>)
    \o <<"    <id>7</id>\n">>
    \o (IF p.redirect THEN <<"    <redirect title=\"B\" />\n">> ELSE <<>>)
    \o <<"    <revision>\n", "      <id>9</id>\n">>
    \o TextLines(p.form)
    \o <<"    </revision>\n", "  </page>\n">>

HeaderLines == <<"<mediawiki>\n", "    <base>http://a.org/wiki/Main</base>\n">>

RECURSIVE DumpLines(_)
DumpLines(ps) == IF ps = <<>> THEN <<>> ELSE PageLines(Head(ps)) \o DumpLines(Tail(ps))

PageLists == UNION {[1..n -> PageRecords] : n \in 0..MaxPages}

\* every line a dump can hold
Lines ==
    {HeaderLines[i] : i \in 1..Len(HeaderLines)}
    \cup UNION {{PageLines(p)[i] : i \in 1..Len(PageLines(p))} : p \in PageRecords}

----------------------------------------------------------------------------
(* process_data                                                            *)

\* tag_shadow for a line
TagOf(l) ==
    IF Find(l, "<", 0) >= 0 /\ TagsSearch(l).found THEN TagsSearch(l).g2 ELSE ""

\* `not id_shadow`: None and the empty string are both false
Falsy(v) == v = None \/ v = Some("")

\* the arm of the if/elif chain a line takes, in the order the code tests them
ArmOf(tag, id, intext) ==
    CASE tag = "page" -> "page"
      [] tag # "page" /\ tag = "id" /\ Falsy(id) -> "id"
      [] tag = "title" -> "title"
      [] tag = "redirect" -> "redirect"
      [] tag = "text" -> "text"
      [] tag = "/text" -> "/text"
      [] tag \notin {"page", "title", "redirect", "text", "/text"}
           /\ ~(tag = "id" /\ Falsy(id)) /\ intext -> "in_text"
      [] tag = "/page" /\ ~intext -> "/page"
      [] tag = "base" /\ ~intext -> "base"
      [] OTHER -> "none"

\* the line the for loop hands to the body next
NextLine == input[pos + 1]

\* TAGS.search and tag_shadow of every line, computed once
MatchOf == [l \in Lines |-> TagsSearch(l)]
TagTable == [l \in Lines |-> TagOf(l)]

NextMatch == MatchOf[NextLine]
NextArm == ArmOf(TagTable[NextLine], id_shadow, in_text)

\* for line in input_shadow: the part every arm shares
Read(arm) ==
    /\ pc = "run"
    /\ pos < Len(input)
    /\ NextArm = arm
    /\ pos' = pos + 1
    /\ line' = NextLine
    /\ branch' = arm
    /\ UNCHANGED <<input, pages>>
    /\ UNCHANGED notScan

PageOpen ==
    /\ Read("page")
    /\ page' = <<>>
    /\ redirect' = FALSE
    /\ UNCHANGED <<id_shadow, title, in_text, prefix, counter, sink, pc>>

IdTag ==
    /\ Read("id")
    /\ id_shadow' = Some(NextMatch.g3)
    /\ UNCHANGED <<page, title, in_text, redirect, prefix, counter, sink, pc>>

TitleTag ==
    /\ Read("title")
    /\ title' = Some(NextMatch.g3)
    /\ UNCHANGED <<page, id_shadow, in_text, redirect, prefix, counter, sink, pc>>

RedirectTag ==
    /\ Read("redirect")
    /\ redirect' = TRUE
    /\ UNCHANGED <<page, id_shadow, title, in_text, prefix, counter, sink, pc>>

\* m.lastindex == 4 is the code's test for "open-close"
TextLeavesInText(m) == m.lastindex = 4

TextOpen ==
    /\ Read("text")
    /\ page' = Append(page, Slice(NextLine, NextMatch.start3, NextMatch.end3) \o "\n")
    /\ in_text' = ~TextLeavesInText(NextMatch)
    /\ UNCHANGED <<id_shadow, title, redirect, prefix, counter, sink, pc>>

TextClose ==
    /\ Read("/text")
    /\ page' = IF NextMatch.g1 # "" THEN Append(page, NextMatch.g1 \o "\n") ELSE page
    /\ in_text' = FALSE
    /\ UNCHANGED <<id_shadow, title, redirect, prefix, counter, sink, pc>>

InText ==
    /\ Read("in_text")
    /\ page' = Append(page, NextLine)
    /\ UNCHANGED <<id_shadow, title, in_text, redirect, prefix, counter, sink, pc>>

\* the acceptance test with the redirect flag forgotten
AcceptPage_IgnoringRedirect(t, r) == Find(t, ":", 0) < 0

\* colon < 0 and not redirect
AcceptPage(t, r) == Find(t, ":", 0) < 0 /\ ~r

\* wiki_document_sentences(outfile, title, text): the title marker line, then the
\* lines of compact(clean(text)); the sink keeps the marker and the text handed over
Document(t, text) == [marker |-> "<<<" \o t \o ">>>\n", text |-> text]

\* what the /page arm leaves in the id, the title and the buffer
AfterClose(i, t, p) == [id |-> None, title |-> t, page |-> <<>>]

PageClose ==
    /\ Read("/page")
    /\ IF title = None
       THEN \* title.find on an unbound local: UnboundLocalError leaves process_data
            /\ pc' = "raised"
            /\ UNCHANGED <<page, id_shadow, title, in_text, redirect, prefix, counter, sink>>
       ELSE /\ IF AcceptPage(title[1], redirect)
               THEN /\ counter' = counter + 1
                    /\ sink' = Append(sink, Document(title[1], Join(page)))
               ELSE UNCHANGED <<counter, sink>>
            /\ id_shadow' = AfterClose(id_shadow, title, page).id
            /\ title' = AfterClose(id_shadow, title, page).title
            /\ page' = AfterClose(id_shadow, title, page).page
            /\ UNCHANGED <<in_text, redirect, prefix, pc>>

BaseTag ==
    /\ Read("base")
    /\ prefix' = Some(Slice(NextMatch.g3, 0, RFind(NextMatch.g3, "/")))
    /\ UNCHANGED <<page, id_shadow, title, in_text, redirect, counter, sink, pc>>

Ignored ==
    /\ Read("none")
    /\ UNCHANGED <<page, id_shadow, title, in_text, redirect, prefix, counter, sink, pc>>

\* the for loop runs out of lines
Exhausted ==
    /\ pc = "run"
    /\ pos = Len(input)
    /\ pc' = "done"
    /\ UNCHANGED <<input, pos, line, branch, page, id_shadow, title, in_text, redirect,
                   prefix, counter, sink, pages>>
    /\ UNCHANGED notScan

\* no call of drop_nested is under way
NestIdle ==
    /\ dn_tokens = <<>>
    /\ dn_pair = <<"", "">>
    /\ dn_text = ""
    /\ dn_matches = <<>>
    /\ dn_res = None
    /\ dn_pc = "idle"

\* no call of drop_spans is under way
SpanIdle ==
    /\ ds_matches = <<>>
    /\ ds_text = ""
    /\ ds_res = None
    /\ ds_pc = "idle"

\* clean is not at its calls of unescape
UnescIdle ==
    /\ un_in = ""
    /\ un_text = ""
    /\ un_pc = "idle"

\* no call of compact is under way
CompIdle ==
    /\ co_text = ""
    /\ co_lines = <<>>
    /\ co_i = 0
    /\ co_arm = "idle"
    /\ co_page = <<>>
    /\ co_headers = <<>>
    /\ co_empty = FALSE
    /\ co_pc = "idle"

\* clean is not at its final cleanup
CleanIdle ==
    /\ cl_in = ""
    /\ cl_text = ""
    /\ cl_old = -1
    /\ cl_new = 0
    /\ cl_run = 0
    /\ cl_first = None
    /\ cl_pc = "idle"

Init ==
    /\ NestIdle
    /\ SpanIdle
    /\ UnescIdle
    /\ CompIdle
    /\ CleanIdle
    /\ pages \in PageLists
    /\ input = HeaderLines \o DumpLines(pages)
    /\ pos = 0
    /\ line = ""
    /\ branch = "start"
    /\ page = <<>>
    /\ id_shadow = None
    /\ title = None
    /\ in_text = FALSE
    /\ redirect = FALSE
    /\ prefix = None
    /\ counter = 0
    /\ sink = <<>>
    /\ pc = "run"

Next ==
    \/ PageOpen
    \/ IdTag
    \/ TitleTag
    \/ RedirectTag
    \/ TextOpen
    \/ TextClose
    \/ InText
    \/ PageClose
    \/ BaseTag
    \/ Ignored
    \/ Exhausted

Spec == Init /\ [][Next]_vars

\* process_data has not been entered
ScanIdle ==
    /\ pages = <<>>
    /\ input = <<>>
    /\ pos = 0
    /\ line = ""
    /\ branch = "start"
    /\ page = <<>>
    /\ id_shadow = None
    /\ title = None
    /\ in_text = FALSE
    /\ redirect = FALSE
    /\ prefix = None
    /\ counter = 0
    /\ sink = <<>>
    /\ pc = "idle"

----------------------------------------------------------------------------
(* Claims about process_data.                                              *)

\* the record of the page whose lines the scanner is in: page opens consumed so far
PageNo == Cardinality({i \in 1..pos : input[i] = "  <page>\n"})

\* a title without a namespace prefix: no colon in it (the code accepts no prefix)
NoPrefix(t) == \A i \in 0..(Len(t) - 1) : At(t, i) # ":"

\* C1: whenever a page-close tag reaches the /page arm, for a page that has a title,
\* a document is written iff the page carries no redirect marker and its title has
\* no namespace prefix; otherwise the sink is left as it was.
C1_EmitIffAccepted ==
    [][(pc = "run" /\ pos < Len(input) /\ NextArm = "/page" /\ PageNo >= 1
            /\ pages[PageNo].title # "")
        => /\ (sink' # sink) <=> (~pages[PageNo].redirect /\ NoPrefix(pages[PageNo].title))
           /\ sink' # sink => sink' = Append(sink, Document(pages[PageNo].title, Join(page)))
      ]_vars

\* C1 witness: the /page arm has closed a plain page, which was written, and then a
\* redirect page with a prefixed title, which was not.
C1_Witness ==
    /\ branch = "/page"
    /\ PageNo = 2
    /\ pages[1].title = "A" /\ ~pages[1].redirect /\ pages[1].form = "multi"
    /\ pages[2].title = "N:A" /\ pages[2].redirect /\ pages[2].form = "oneline"
    /\ Len(sink) = 1
    /\ sink[1].marker = "<<<A>>>\n"

\* the pages of a dump the scanner is specified for: a title, a text element that ends
WellFormed(p) == p.title # "" /\ p.form # "unclosed"

Accepted(p) == ~p.redirect /\ NoPrefix(p.title)

RECURSIVE ExpectedMarkers(_)
ExpectedMarkers(ps) ==
    IF ps = <<>> THEN <<>>
    ELSE (IF Accepted(Head(ps)) THEN <<"<<<" \o Head(ps).title \o ">>>\n">> ELSE <<>>)
         \o ExpectedMarkers(Tail(ps))

Markers == [i \in 1..Len(sink) |-> sink[i].marker]

\* C2: on a dump of well-formed pages, when the input is exhausted the sink holds one
\* document per accepted page, each under its own title marker, in input order, and
\* nothing else.
C2_OneDocumentPerAcceptedPage ==
    (pc = "done" /\ \A i \in 1..Len(pages) : WellFormed(pages[i]))
        => Markers = ExpectedMarkers(pages)

\* C8: after the /page arm the captured id, the captured title and the buffer are reset.
C8_ResetAfterClose ==
    (branch = "/page" /\ pc = "run")
        => (id_shadow = None /\ title = None /\ page = <<>>)

\* a text element that is opened and closed on one line
ClosedOnLine(l) == FindStr(l, "</text>", 0) >= 0 \/ FindStr(l, "/>", 0) >= 0

\* C9: after a line that opens and closes a text element the scanner is not in InText.
C9_SameLineTextLeavesInText ==
    (branch = "text" /\ ClosedOnLine(line)) => ~in_text

----------------------------------------------------------------------------
(* drop_nested and drop_spans                                              *)

\* res = ''; start = 0; for s, e in matches: res += text[start:s]; start = e;
\* res += text[start:]   (the loop both functions end with)
RECURSIVE Collect(_, _, _)
Collect(text, matches, start) ==
    IF matches = <<>> THEN Slice(text, start, Len(text))
    ELSE Slice(text, start, Head(matches)[1]) \o Collect(text, Tail(matches), Head(matches)[2])

\* the termination arm's "while nest": close all pending; the end it stops at
RECURSIVE CloseAll(_, _, _, _)
CloseAll(text, close, nest, end) ==
    IF nest = 0 THEN end
    ELSE LET end0 == FindStr(text, close, end + Len(close))
         IN IF end0 >= 0 THEN CloseAll(text, close, nest - 1, end0) ELSE end

\* the state of the scan: the spans so far, the nesting level and where the matches
\* start, next_shadow and end lie (end = -1 when close_re.search found nothing)
ScanState(matches, nest, start, end, next) ==
    [matches |-> matches, nest |-> nest, start |-> start, end |-> end, next |-> next]

\* the span the unbalanced arm collapses the matches to
UnbalancedSpan(st, last) ==
    IF st.matches # <<>> THEN <<st.matches[1][1], last>> ELSE <<st.start, last>>

\* while end.end() < next_shadow.start(): ...
RECURSIVE Inner(_, _, _, _)
Inner(text, open, close, st) ==
    IF ~(st.end + Len(close) < st.next) THEN st
    ELSE IF st.nest # 0
         THEN LET last == st.end + Len(close)
                  e == FindStr(text, close, last)
              IN IF e < 0
                 THEN [st EXCEPT !.nest = @ - 1, !.end = -1,
                                 !.matches = <<UnbalancedSpan(st, last)>>]
                 ELSE Inner(text, open, close, [st EXCEPT !.nest = @ - 1, !.end = e])
         ELSE [st EXCEPT !.matches = Append(@, <<st.start, st.end + Len(close)>>),
                         !.start = st.next,
                         !.end = FindStr(text, close, st.next + Len(open))]

\* a second open without its first one closed: the nesting level forgets it
NestAfter_NeverDeeper(st) == st.nest

\* if next_shadow != start: nest += 1
NestAfter(st) == IF st.next # st.start THEN st.nest + 1 ELSE st.nest

\* while end: ...   (the matches the loop ends with)
RECURSIVE Outer(_, _, _, _)
Outer(text, open, close, st) ==
    IF st.end < 0 THEN st.matches
    ELSE LET nx == FindStr(text, open, st.next + Len(open))
         IN IF nx < 0
            THEN Append(st.matches,
                        <<st.start, CloseAll(text, close, st.nest, st.end) + Len(close)>>)
            ELSE LET s1 == Inner(text, open, close, [st EXCEPT !.next = nx])
                 IN Outer(text, open, close, [s1 EXCEPT !.nest = NestAfter(s1)])

\* the matches drop_nested collects for a text that holds an open
NestedMatches(text, open, close) ==
    LET start == FindStr(text, open, 0)
    IN Outer(text, open, close,
             ScanState(<<>>, 0, start, FindStr(text, close, start + Len(open)), start))

\* the delimiter pairs clean calls drop_nested with
DelimPairs == {<<"{{", "}}">>, <<"{|", "|}">>}

MaxTokens == 7

Letters == "abcdefghijklmnopqrstuvwxyz"

TokenSeqs == UNION {[1..n -> {"o", "c", "x"}] : n \in 0..MaxTokens}

\* the text of a token: a delimiter, or a letter that tells where it stood
TokenText(tokens, pair, i) ==
    CASE tokens[i] = "o" -> pair[1]
      [] tokens[i] = "c" -> pair[2]
      [] OTHER -> At(Letters, i - 1)

RECURSIVE Render(_, _, _)
Render(tokens, pair, i) ==
    IF i > Len(tokens) THEN "" ELSE TokenText(tokens, pair, i) \o Render(tokens, pair, i + 1)

InitNested ==
    /\ ScanIdle
    /\ SpanIdle
    /\ UnescIdle
    /\ CompIdle
    /\ CleanIdle
    /\ dn_tokens \in TokenSeqs
    /\ dn_pair \in DelimPairs
    /\ dn_text = Render(dn_tokens, dn_pair, 1)
    /\ dn_matches = <<>>
    /\ dn_res = None
    /\ dn_pc = "call"

\* if not start: return text
DropNestedNoOpen ==
    /\ dn_pc = "call"
    /\ FindStr(dn_text, dn_pair[1], 0) < 0
    /\ dn_res' = Some(dn_text)
    /\ dn_pc' = "done"
    /\ UNCHANGED <<dn_tokens, dn_pair, dn_text, dn_matches>>
    /\ UNCHANGED notNest

DropNestedScan ==
    /\ dn_pc = "call"
    /\ FindStr(dn_text, dn_pair[1], 0) >= 0
    /\ dn_matches' = NestedMatches(dn_text, dn_pair[1], dn_pair[2])
    /\ dn_res' = Some(Collect(dn_text, dn_matches', 0))
    /\ dn_pc' = "done"
    /\ UNCHANGED <<dn_tokens, dn_pair, dn_text>>
    /\ UNCHANGED notNest

NextNested ==
    \/ DropNestedNoOpen
    \/ DropNestedScan

SpecNested == InitNested /\ [][NextNested]_vars

\* tuples compare lexicographically
SpanLess(a, b) == a[1] < b[1] \/ (a[1] = b[1] /\ a[2] < b[2])

\* the list with one span put where it belongs in a sorted list
RECURSIVE Insert(_, _)
Insert(sorted, m) ==
    IF sorted = <<>> THEN <<m>>
    ELSE IF SpanLess(m, Head(sorted)) THEN <<m>> \o sorted
    ELSE <<Head(sorted)>> \o Insert(Tail(sorted), m)

\* matches.sort()
RECURSIVE Sorted(_)
Sorted(matches) ==
    IF matches = <<>> THEN <<>> ELSE Insert(Sorted(Tail(matches)), Head(matches))

\* drop_spans(matches, text)
DropSpansResult(matches, text) == Collect(text, Sorted(matches), 0)

MaxSpans == 2
SpanTextLen == 5

\* the (start, end) pairs of non-empty matches in a text of SpanTextLen characters
Spans == {m \in (0..SpanTextLen) \X (0..SpanTextLen) : m[1] < m[2]}

InitSpans ==
    /\ ScanIdle
    /\ NestIdle
    /\ UnescIdle
    /\ CompIdle
    /\ CleanIdle
    /\ ds_matches \in UNION {[1..n -> Spans] : n \in 0..MaxSpans}
    /\ ds_text = Slice(Letters, 0, SpanTextLen)
    /\ ds_res = None
    /\ ds_pc = "call"

\* the sort is in place: the caller's list is sorted afterwards
DropSpans ==
    /\ ds_pc = "call"
    /\ ds_matches' = Sorted(ds_matches)
    /\ ds_res' = Some(DropSpansResult(ds_matches, ds_text))
    /\ ds_pc' = "done"
    /\ UNCHANGED ds_text
    /\ UNCHANGED notSpan

NextSpans == DropSpans

SpecSpans == InitSpans /\ [][NextSpans]_vars

----------------------------------------------------------------------------
(* unescape, and the two calls clean makes of it                           *)

UpperLetters == "ABCDEFGHIJKLMNOPQRSTUVWXYZ"
LowerLetters == "abcdefghijklmnopqrstuvwxyz"
Digits == "0123456789"

\* stands for every character that is no ASCII letter, digit or one of & < > " # ; space
OtherChar == "\t"

\* sys.maxunicode + 1: chr raises ValueError from here on
UnicodeLimit == 1114112

\* the character of a code point below UnicodeLimit
CharOf(n) ==
    CASE n >= 48 /\ n <= 57 -> At(Digits, n - 48)
      [] n >= 65 /\ n <= 90 -> At(UpperLetters, n - 65)
      [] n >= 97 /\ n <= 122 -> At(LowerLetters, n - 97)
      [] n = 32 -> " "
      [] n = 34 -> "\""
      [] n = 35 -> "#"
      [] n = 38 -> "&"
      [] n = 59 -> ";"
      [] n = 60 -> "<"
      [] n = 62 -> ">"
      [] OTHER -> OtherChar

\* chr(n): a result, or ValueError
Chr(n) ==
    IF n >= UnicodeLimit THEN [ok |-> FALSE, text |-> ""]
    ELSE [ok |-> TRUE, text |-> CharOf(n)]

HexDigits == "0123456789abcdef"
HexUpper == "0123456789ABCDEF"

\* the value of a digit in a base, or -1
DigitValue(c, base) ==
    LET S == {v \in 0..(base - 1) : At(HexDigits, v) = c \/ At(HexUpper, v) = c}
    IN IF S = {} THEN -1 ELSE Min(S)

RECURSIVE DigitsValue(_, _, _)
DigitsValue(s, base, acc) ==
    IF s = "" THEN acc
    ELSE DigitsValue(Tail(s), base, acc * base + DigitValue(Head(s), base))

\* int(s, base) of a string of \w characters without an underscore or a base prefix:
\* a value, or ValueError when s is empty or holds a character that is no digit
IntOf(s, base) ==
    IF s = "" \/ \E i \in 0..(Len(s) - 1) : DigitValue(At(s, i), base) < 0
    THEN [ok |-> FALSE, value |-> 0]
    ELSE [ok |-> TRUE, value |-> DigitsValue(s, base, 0)]

\* html.entities.name2codepoint, the entries the texts use
Name2Codepoint == [amp |-> 38, lt |-> 60, gt |-> 62, quot |-> 34, nbsp |-> 160]

\* fixup(m) for the reference text_inner = m.group(0) with code = m.group(1)
Fixup(text_inner, code) ==
    IF At(text_inner, 1) = "#"
    THEN LET n == IF At(text_inner, 2) = "x"
                  THEN IntOf(Slice(code, 1, Len(code)), 16)
                  ELSE IntOf(code, 10)
         IN IF n.ok THEN Chr(n.value) ELSE [ok |-> FALSE, text |-> ""]
    ELSE IF code \in DOMAIN Name2Codepoint
         THEN Chr(Name2Codepoint[code])
         ELSE [ok |-> TRUE, text |-> text_inner]

\* &#?(\w+); matched with its "&" at p: the index after the ";", or -1
RefEnd(text, p) ==
    LET q == IF p + 1 < Len(text) /\ At(text, p + 1) = "#" THEN p + 2 ELSE p + 1
        r == WordEnd(text, q)
    IN IF At(text, p) = "&" /\ q < Len(text) /\ r > q /\ r < Len(text) /\ At(text, r) = ";"
       THEN r + 1 ELSE -1

\* re.sub(r'&#?(\w+);', fixup, text) from position i on: the text, or the ValueError
\* the first failing fixup raises
RECURSIVE SubRefs(_, _)
SubRefs(text, i) ==
    LET S == {p \in i..(Len(text) - 1) : RefEnd(text, p) >= 0}
    IN IF S = {} THEN [ok |-> TRUE, text |-> Slice(text, i, Len(text))]
       ELSE LET p == Min(S)
                e == RefEnd(text, p)
                q == IF At(text, p + 1) = "#" THEN p + 2 ELSE p + 1
                f == Fixup(Slice(text, p, e), Slice(text, q, e - 1))
                rest == SubRefs(text, e)
            IN IF f.ok /\ rest.ok
               THEN [ok |-> TRUE, text |-> Slice(text, i, p) \o f.text \o rest.text]
               ELSE [ok |-> FALSE, text |-> ""]

unescape(text) == SubRefs(text, 0)

MaxPieces == 3

\* what the texts handed to unescape are put together from
Pieces == {"x", "&amp;", "&lt;", "&#65;", "&#x41;", "&foo;", "amp;", "#x41;", "&#xZZ;",
           "&#abc;", "&#1114112;", "&#x110000;", "&#x;", "&#160;"}

PieceTexts == {Join(ps) : ps \in UNION {[1..n -> Pieces] : n \in 0..MaxPieces}}

InitUnescape ==
    /\ ScanIdle
    /\ NestIdle
    /\ SpanIdle
    /\ CompIdle
    /\ CleanIdle
    /\ un_in \in PieceTexts
    /\ un_text = un_in
    /\ un_pc = "first"

\* text = unescape(text), "Turn into HTML"
UnescapeFirst ==
    /\ un_pc = "first"
    /\ IF unescape(un_text).ok
       THEN un_text' = unescape(un_text).text /\ un_pc' = "second"
       ELSE un_pc' = "raised" /\ UNCHANGED un_text
    /\ UNCHANGED un_in
    /\ UNCHANGED notUnesc

\* text = unescape(text), "Do it again"
UnescapeSecond ==
    /\ un_pc = "second"
    /\ IF unescape(un_text).ok
       THEN un_text' = unescape(un_text).text /\ un_pc' = "done"
       ELSE un_pc' = "raised" /\ UNCHANGED un_text
    /\ UNCHANGED un_in
    /\ UNCHANGED notUnesc

NextUnescape ==
    \/ UnescapeFirst
    \/ UnescapeSecond

SpecUnescape == InitUnescape /\ [][NextUnescape]_vars

----------------------------------------------------------------------------
(* compact, in plain mode (structure = False, as wiki_document_sentences calls it) *)

\* the regular expression class \s (ASCII)
IsSpace(c) == c \in {" ", "\t", "\n", "\r", "\f"}

\* text.split('\n')
RECURSIVE Split(_)
Split(text) ==
    LET nl == Find(text, "\n", 0)
    IN IF nl < 0 THEN <<text>>
       ELSE <<Slice(text, 0, nl)>> \o Split(Slice(text, nl + 1, Len(text)))

\* end of the longest run of c starting at i
RunEnd(s, c, i) ==
    LET S == {j \in i..(Len(s) - 1) : At(s, j) # c}
    IN IF S = {} THEN Len(s) ELSE Min(S)

\* end of the longest run of \s starting at i
SpaceEnd(s, i) ==
    LET S == {j \in i..(Len(s) - 1) : ~IsSpace(At(s, j))}
    IN IF S = {} THEN Len(s) ELSE Min(S)

\* \s*\1 matches at p when \1 is k equals signs: a run of \s from p, then the signs
ClosesAt(s, k, p) ==
    \E q \in p..SpaceEnd(s, p) :
        q + k <= Len(s) /\ \A j \in q..(q + k - 1) : At(s, j) = "="

\* SECTION = (==+)\s*(.*?)\s*\1 with group 1 being k equals signs: where the lazy
\* group 2 ends, or -1 when this k does not match
SectionTitleEnd(s, k) ==
    LET S == {p \in SpaceEnd(s, k)..Len(s) : ClosesAt(s, k, p)}
    IN IF S = {} THEN -1 ELSE Min(S)

\* SECTION.match(line): group 1 is the longest run of equals signs that lets the rest
\* match; lev = len(m.group(1)), title = m.group(2)
SectionMatch(s) ==
    LET K == RunEnd(s, "=", 0)
        S == {k \in 2..K : SectionTitleEnd(s, k) >= 0}
    IN IF S = {} THEN [found |-> FALSE]
       ELSE LET k == Max(S)
            IN [found |-> TRUE, lev |-> k,
                title |-> Slice(s, SpaceEnd(s, k), SectionTitleEnd(s, k))]

\* if title and title[-1] not in '!?': title += '.'
Terminated(t) ==
    IF t # "" /\ At(t, Len(t) - 1) \notin {"!", "?"} THEN t \o "." ELSE t

\* line.strip('.-') == ''
OnlyDotsAndDashes(l) == \A i \in 0..(Len(l) - 1) : At(l, i) \in {".", "-"}

\* the arm of the loop body a line takes, in the order the code tests them
CompactArm(l) ==
    CASE l = "" -> "blank"
      [] l # "" /\ SectionMatch(l).found -> "section"
      [] OTHER ->
         IF Len(l) >= 2 /\ Slice(l, 0, 2) = "++" THEN "title"
         ELSE IF At(l, 0) \in {"*", "#", ":", ";"} THEN "list"
         ELSE IF At(l, 0) \in {"{", "|"} \/ At(l, Len(l) - 1) = "}" THEN "residue"
         ELSE IF (At(l, 0) = "(" /\ At(l, Len(l) - 1) = ")") \/ OnlyDotsAndDashes(l)
              THEN "irrelevant"
         ELSE "body"

\* headers[lev] = title
SetHeader(headers, lev, t) ==
    [i \in DOMAIN headers \cup {lev} |-> IF i = lev THEN t ELSE headers[i]]

\* the recorded header drops no deeper header
DropDeeper_KeepsAll(headers, lev) == headers

\* for i in list(headers.keys()): if i > lev: del headers[i]
DropDeeper(headers, lev) == [i \in {j \in DOMAIN headers : j <= lev} |-> headers[i]]

\* items = list(headers.items()); items.sort(); the values in that order
\* the pending headers flushed from the deepest level to the shallowest
RECURSIVE HeaderValues_Descending(_)
HeaderValues_Descending(headers) ==
    IF DOMAIN headers = {} THEN <<>>
    ELSE LET i == Max(DOMAIN headers)
         IN <<headers[i]>> \o HeaderValues_Descending([j \in DOMAIN headers \ {i} |-> headers[j]])

RECURSIVE HeaderValues(_)
HeaderValues(headers) ==
    IF DOMAIN headers = {} THEN <<>>
    ELSE LET i == Min(DOMAIN headers)
         IN <<headers[i]>> \o HeaderValues([j \in DOMAIN headers \ {i} |-> headers[j]])

MaxCompactLines == 4

\* the lines the texts handed to compact are put together from
CompactLineSet == {"", "==H==", "=== G ===", "==K?==", "====J====", "b.", "p", "* i",
                   "|-", "(x)", "---", "++T++"}

CompactLineLists == UNION {[1..n -> CompactLineSet] : n \in 1..MaxCompactLines}

\* '\n'.join(lines)
RECURSIVE JoinLines(_)
JoinLines(ls) ==
    IF Len(ls) = 1 THEN Head(ls) ELSE Head(ls) \o "\n" \o JoinLines(Tail(ls))

\* the arm and the section match of every line, computed once
ArmTable == [l \in CompactLineSet |-> CompactArm(l)]
SectionTable == [l \in CompactLineSet |-> SectionMatch(l)]

InitCompact ==
    /\ ScanIdle
    /\ NestIdle
    /\ SpanIdle
    /\ UnescIdle
    /\ CleanIdle
    /\ co_text \in {JoinLines(ls) : ls \in CompactLineLists}
    /\ co_lines = Split(co_text)
    /\ co_i = 0
    /\ co_arm = "start"
    /\ co_page = <<>>
    /\ co_headers = <<>>
    /\ co_empty = FALSE
    /\ co_pc = "loop"

CompactLine == co_lines[co_i + 1]

\* for line in text.split('\n'): the part every arm shares
CompactRead(arm) ==
    /\ co_pc = "loop"
    /\ co_i < Len(co_lines)
    /\ ArmTable[CompactLine] = arm
    /\ co_i' = co_i + 1
    /\ co_arm' = arm
    /\ UNCHANGED <<co_text, co_lines, co_pc>>
    /\ UNCHANGED notComp

\* if not line: continue
CompactBlank ==
    /\ CompactRead("blank")
    /\ UNCHANGED <<co_page, co_headers, co_empty>>

\* Handle section titles
CompactSection ==
    /\ CompactRead("section")
    /\ co_headers' = DropDeeper(SetHeader(co_headers, SectionTable[CompactLine].lev,
                                          Terminated(SectionTable[CompactLine].title)),
                                SectionTable[CompactLine].lev)
    /\ co_empty' = TRUE
    /\ UNCHANGED co_page

\* Handle page title
CompactTitle ==
    /\ CompactRead("title")
    /\ LET t == Slice(CompactLine, 2, Len(CompactLine) - 2)
       IN co_page' = IF t # "" THEN Append(co_page, Terminated(t)) ELSE co_page
    /\ UNCHANGED <<co_headers, co_empty>>

\* handle lists
CompactList ==
    /\ CompactRead("list")
    /\ UNCHANGED <<co_page, co_headers, co_empty>>

\* Drop residuals of lists
CompactResidue ==
    /\ CompactRead("residue")
    /\ UNCHANGED <<co_page, co_headers, co_empty>>

\* Drop irrelevant lines
CompactIrrelevant ==
    /\ CompactRead("irrelevant")
    /\ UNCHANGED <<co_page, co_headers, co_empty>>

\* elif len(headers): flush the pending headers, then the first line of the section
CompactFlush ==
    /\ CompactRead("body")
    /\ DOMAIN co_headers # {}
    /\ co_page' = Append(co_page \o HeaderValues(co_headers), CompactLine)
    /\ co_headers' = <<>>
    /\ co_empty' = FALSE

\* elif not empty_section: page.append(line)
CompactAppend ==
    /\ CompactRead("body")
    /\ DOMAIN co_headers = {}
    /\ co_page' = IF ~co_empty THEN Append(co_page, CompactLine) ELSE co_page
    /\ UNCHANGED <<co_headers, co_empty>>

\* return page
CompactReturn ==
    /\ co_pc = "loop"
    /\ co_i = Len(co_lines)
    /\ co_pc' = "done"
    /\ UNCHANGED <<co_text, co_lines, co_i, co_arm, co_page, co_headers, co_empty>>
    /\ UNCHANGED notComp

NextCompact ==
    \/ CompactBlank
    \/ CompactSection
    \/ CompactTitle
    \/ CompactList
    \/ CompactResidue
    \/ CompactIrrelevant
    \/ CompactFlush
    \/ CompactAppend
    \/ CompactReturn

SpecCompact == InitCompact /\ [][NextCompact]_vars

----------------------------------------------------------------------------
(* Claims about drop_nested, read off the tokens the text was made of.     *)

\* opens minus closes among the first i tokens
Depth(tokens, i) ==
    Cardinality({j \in 1..i : tokens[j] = "o"}) - Cardinality({j \in 1..i : tokens[j] = "c"})

Balanced(tokens) ==
    /\ \A i \in 1..Len(tokens) : Depth(tokens, i) >= 0
    /\ Depth(tokens, Len(tokens)) = 0

\* where token i starts in the text: both delimiters are two characters wide
Offset(tokens, i) ==
    2 * Cardinality({j \in 1..(i - 1) : tokens[j] # "x"})
    + Cardinality({j \in 1..(i - 1) : tokens[j] = "x"})

\* the close that matches the open at a
CloseOf(tokens, a) ==
    LET S == {b \in (a + 1)..Len(tokens) : Depth(tokens, b) = Depth(tokens, a - 1)}
    IN IF S = {} THEN 0 ELSE Min(S)

\* the outermost open...close regions of a balanced text, as character spans
OuterRegions(tokens) ==
    {<<Offset(tokens, a), Offset(tokens, CloseOf(tokens, a)) + 2>> :
        a \in {i \in 1..Len(tokens) : tokens[i] = "o" /\ Depth(tokens, i - 1) = 0}}

\* the tokens of `keep`, as text, in their order
RECURSIVE TextOf(_, _, _, _)
TextOf(tokens, pair, keep, i) ==
    IF i > Len(tokens) THEN ""
    ELSE (IF i \in keep THEN TokenText(tokens, pair, i) ELSE "")
         \o TextOf(tokens, pair, keep, i + 1)

\* C3: on a text with balanced delimiters drop_nested returns exactly the text outside
\* the outermost regions, verbatim and in order, and every outermost region lies, with
\* all that is nested in it, inside one single deleted span.
C3_BalancedRegionsRemoved ==
    (dn_pc = "done" /\ Balanced(dn_tokens))
        => /\ dn_res = Some(TextOf(dn_tokens, dn_pair,
                                   {i \in 1..Len(dn_tokens) :
                                       dn_tokens[i] = "x" /\ Depth(dn_tokens, i) = 0}, 1))
           /\ \A r \in OuterRegions(dn_tokens) :
                 \E k \in 1..Len(dn_matches) :
                     dn_matches[k][1] <= r[1] /\ r[2] <= dn_matches[k][2]

\* C3 witness: a pair nested in another and, after some text, a sibling pair have been
\* removed from around the text that stood between them.
C3_Witness ==
    /\ dn_pc = "done"
    /\ dn_text = "{{{{}}}}e{{}}"
    /\ dn_res = Some("e")

\* the opens no close matches
UnmatchedOpens(tokens) ==
    {a \in 1..Len(tokens) : tokens[a] = "o" /\ CloseOf(tokens, a) = 0}

\* tokens inside a complete open...close pair, the pair's delimiters included
InCompletePair(tokens, i) ==
    \E a \in 1..i : tokens[a] = "o" /\ CloseOf(tokens, a) >= i

\* C10: on a text with more opens than closes (and no close without an open) the
\* result is the text less its complete pairs and less the one region from the first
\* unmatched open through the last close after it; in particular the text before that
\* open, outside every complete pair, is kept.
C10_UnbalancedKeepsOutsideText ==
    (/\ dn_pc = "done"
     /\ \A i \in 1..Len(dn_tokens) : Depth(dn_tokens, i) >= 0
     /\ Depth(dn_tokens, Len(dn_tokens)) > 0)
        => LET first == Min(UnmatchedOpens(dn_tokens))
               closes == {i \in 1..Len(dn_tokens) : dn_tokens[i] = "c"}
               last == IF closes = {} THEN 0 ELSE Max(closes)
               keep == {i \in 1..Len(dn_tokens) :
                           /\ ~(i < first /\ InCompletePair(dn_tokens, i))
                           /\ ~(first <= i /\ i <= last)}
           IN dn_res = Some(TextOf(dn_tokens, dn_pair, keep, 1))

----------------------------------------------------------------------------
(* Claims about drop_spans.                                                *)

\* position i of the text lies in at least one span
Covered(matches, i) == \E k \in 1..Len(matches) : matches[k][1] <= i /\ i < matches[k][2]

RECURSIVE Uncovered(_, _, _)
Uncovered(matches, text, i) ==
    IF i >= Len(text) THEN ""
    ELSE (IF Covered(matches, i) THEN "" ELSE At(text, i)) \o Uncovered(matches, text, i + 1)

\* C4: for any spans, overlapping and nested ones included, drop_spans returns the
\* characters no span covers, each once and in order, and none that a span covers.
C4_CoveredCharactersDropped ==
    ds_pc = "done" => ds_res = Some(Uncovered(ds_matches, ds_text, 0))

----------------------------------------------------------------------------
(* Claims about unescape.                                                  *)

\* C7: unescape never raises, in neither of the two calls clean makes of it: a
\* reference that cannot be resolved is left as it is or replaced by nothing.
C7_UnescapeNeverRaises == un_pc # "raised"

----------------------------------------------------------------------------
(* Claims about compact, read off the lines of the text.                   *)

IsHeading(i) == ArmTable[co_lines[i]] = "section"
HeadingLevel(i) == SectionTable[co_lines[i]].lev
HeaderText(i) == Terminated(SectionTable[co_lines[i]].title)

\* the line is kept as a paragraph of a section: no blank, heading, page title, list,
\* table residue or irrelevant line
IsBodyLine(i) == ArmTable[co_lines[i]] = "body"

\* the first heading after line i of the same or a shallower level, or past the end
SectionEnd(i) ==
    LET S == {j \in (i + 1)..Len(co_lines) :
                 IsHeading(j) /\ HeadingLevel(j) <= HeadingLevel(i)}
    IN IF S = {} THEN Len(co_lines) + 1 ELSE Min(S)

\* a heading with no body line before the end of its section
EmptyHeading(i) ==
    IsHeading(i) /\ \A j \in (i + 1)..(SectionEnd(i) - 1) : ~IsBodyLine(j)

\* C6: a heading with no body line before the end of the text or the next heading of
\* the same or a shallower level contributes no output line: a header text is returned
\* as often as there are headings of that text that do have a body line, and so not at
\* all when every heading of that text is empty.
C6_EmptySectionSuppressed ==
    co_pc = "done" =>
        \A i \in 1..Len(co_lines) :
            IsHeading(i) =>
                Cardinality({k \in 1..Len(co_page) : co_page[k] = HeaderText(i)})
                = Cardinality({j \in 1..Len(co_lines) :
                                  /\ IsHeading(j)
                                  /\ HeaderText(j) = HeaderText(i)
                                  /\ ~EmptyHeading(j)})

\* C6 witness: a heading followed only by a list line and then by a heading of the same
\* level is missing from the page, which holds the second heading and its body line.
C6_Witness ==
    /\ co_pc = "done"
    /\ co_lines = <<"==H==", "* i", "==K?==", "b.">>
    /\ co_page = <<"K?", "b.">>

----------------------------------------------------------------------------
(* clean, the final cleanup: the one-time normalisation and the loop that   *)
(* repeats the substitutions until the length of the text stops changing.   *)

\* TLC's strings are ASCII: three characters the texts do not otherwise hold stand for
\* the code points the one-time normalisation is about
NBSP == "~"         \* U+00A0, no-break space
DashChar == "^"     \* U+2013, en dash, a member of DASHES
QuoteChar == "$"    \* U+201C, left double quotation mark, a member of QUOTES

\* text[i], or the empty string past the end
CharAt(s, i) == IF 0 <= i /\ i < Len(s) THEN At(s, i) ELSE ""

\* string.punctuation, less the grave accent, which a TLA+ string cannot hold (the three
\* stand-ins denote characters that are not in it)
Punctuation ==
    {"!", "\"", "#", "%", "&", "'", "(", ")", "*", "+", ",", "-", ".", "/", ":",
     ";", "<", "=", ">", "?", "@", "[", "\\", "]", "_", "{", "|", "}"}

\* \s on a str pattern: the no-break space is whitespace too
IsWhite(c) == IsSpace(c) \/ c = NBSP

\* \w
WordChars == Lower \cup Upper \cup Digit \cup {"_"}

\* [^\d\W]
NameChars == WordChars \ Digit

\* text.startswith(lit, i)
StartsWith(s, i, lit) == i + Len(lit) <= Len(s) /\ Slice(s, i, i + Len(lit)) = lit

\* the end of the longest run, from i, of characters of a class
ClassEnd(s, i, class) ==
    LET S == {j \in i..(Len(s) - 1) : At(s, j) \notin class}
    IN  IF S = {} THEN Max({i, Len(s)}) ELSE Min(S)

\* the end of the longest run, from i, of characters that are no line feed: as far as
\* . reaches
LineEnd(s, i) ==
    LET S == {j \in i..(Len(s) - 1) : At(s, j) = "\n"}
    IN  IF S = {} THEN Max({i, Len(s)}) ELSE Min(S)

\* text.replace(old, new): the occurrences of old are taken left to right and do not
\* overlap, and what a replacement produced is not scanned again
replace(text, old, new) ==
    LET out[i \in 0..Len(text)] ==
            IF i >= Len(text) THEN ""
            ELSE IF StartsWith(text, i, old) THEN new \o out[i + Len(old)]
            ELSE At(text, i) \o out[i + 1]
    IN  out[0]

\* c{n,}
RunAtLeast(s, i, c, n) ==
    LET e == ClassEnd(s, i, {c})
    IN  IF e - i >= n THEN e ELSE -1

\* SPACES = r' {2,}'
SPACES(s, i) == RunAtLeast(s, i, " ", 2)

\* DOTS = r'\.{4,}'
DOTS(s, i) == RunAtLeast(s, i, ".", 4)

\* COMMAS = r',{2,}'
COMMAS(s, i) == RunAtLeast(s, i, ",", 2)

\* DUPLICATE_QUOTES = r'\"{2,}'
DUPLICATE_QUOTES(s, i) == RunAtLeast(s, i, "\"", 2)

\* MULTIPLE_NEWLINES = r'\n{2,}'
MULTIPLE_NEWLINES(s, i) == RunAtLeast(s, i, "\n", 2)

\* DASHES = r'[\u2011-\u2015\u2e3a\u2e3b]'
DASHES(s, i) == IF At(s, i) = DashChar THEN i + 1 ELSE -1

\* QUOTES = r'[\u2018-\u201f]'
QUOTES(s, i) == IF At(s, i) = QuoteChar THEN i + 1 ELSE -1

\* PLACEHOLDER_TAGS = r'<<(?:MATH|CODE)>>_\d*'
PLACEHOLDER_TAGS(s, i) ==
    IF StartsWith(s, i, "<<MATH>>_") \/ StartsWith(s, i, "<<CODE>>_")
    THEN ClassEnd(s, i + 9, Digit)
    ELSE -1

\* PUNCTUATION = r'\n[<string.punctuation>]+?\n': a line of punctuation only, with the
\* line feeds on both sides
PUNCTUATION(s, i) ==
    LET e == ClassEnd(s, i + 1, Punctuation)
    IN  IF At(s, i) = "\n" /\ e > i + 1 /\ CharAt(s, e) = "\n" THEN e + 1 ELSE -1

\* UNDERSCORE_NAME = r'__[^\d\W]+__': the underscore is itself in the class, so the
\* closing pair is the last one inside the run
UNDERSCORE_NAME(s, i) ==
    LET r == ClassEnd(s, i + 2, NameChars)
        K == {k \in (i + 5)..r : At(s, k - 2) = "_" /\ At(s, k - 1) = "_"}
    IN  IF StartsWith(s, i, "__") /\ K # {} THEN Max(K) ELSE -1

\* RIGHT_HEAVY_DASHED_PARENTHETICALS = r'(?<=\() - (?=.*\))'
RIGHT_HEAVY_DASHED_PARENTHETICALS(s, i) ==
    LET eol == LineEnd(s, i + 3)
    IN  IF /\ CharAt(s, i - 1) = "("
           /\ StartsWith(s, i, " - ")
           /\ \E j \in (i + 3)..(eol - 1) : At(s, j) = ")"
        THEN i + 3 ELSE -1

\* BAD_LINKS = r'(?:\n\w+?(?:\|.+?)+?\n)|(?:\n\w+?:.+?\n)': a whole line, with the line
\* feeds on both sides, that is a word, then | or :, then at least one more character
BAD_LINKS(s, i) ==
    LET w == ClassEnd(s, i + 1, WordChars)
        eol == LineEnd(s, i + 1)
    IN  IF /\ At(s, i) = "\n"
           /\ w >= i + 2
           /\ CharAt(s, w) \in {"|", ":"}
           /\ eol >= w + 2
           /\ CharAt(s, eol) = "\n"
        THEN eol + 1 ELSE -1

\* EMPTY_BRACKETS = r'(?:\(\))|(?:\[])'
EMPTY_BRACKETS(s, i) ==
    IF StartsWith(s, i, "()") \/ StartsWith(s, i, "[]") THEN i + 2 ELSE -1

\* EMPTY_COMMAS = r',(?: ,)+'
EMPTY_COMMAS(s, i) ==
    LET more[j \in 0..Len(s)] == IF StartsWith(s, j, " ,") THEN more[j + 2] ELSE j
    IN  IF At(s, i) = "," /\ StartsWith(s, i + 1, " ,") THEN more[i + 1] ELSE -1

\* LONE_COMMA_LEFT = r'\s?,\s?\)'
LONE_COMMA_LEFT(s, i) ==
    LET c == IF IsWhite(At(s, i)) /\ CharAt(s, i + 1) = "," THEN i + 1
             ELSE IF At(s, i) = "," THEN i ELSE -1
    IN  IF c = -1 THEN -1
        ELSE IF IsWhite(CharAt(s, c + 1)) /\ CharAt(s, c + 2) = ")" THEN c + 3
        ELSE IF CharAt(s, c + 1) = ")" THEN c + 2
        ELSE -1

\* LONE_COMMA_RIGHT = r'\(\s?,\s?'
LONE_COMMA_RIGHT(s, i) ==
    LET c == IF IsWhite(CharAt(s, i + 1)) /\ CharAt(s, i + 2) = "," THEN i + 2
             ELSE IF CharAt(s, i + 1) = "," THEN i + 1 ELSE -1
    IN  IF At(s, i) # "(" \/ c = -1 THEN -1
        ELSE IF IsWhite(CharAt(s, c + 1)) THEN c + 2
        ELSE c + 1

\* pattern.match(text, i) for the patterns of the cleanup, named by their variables: the
\* end of the match that starts at i, or -1
MatchEnd(pattern, s, i) ==
    CASE pattern = "SPACES" -> SPACES(s, i)
      [] pattern = "DOTS" -> DOTS(s, i)
      [] pattern = "COMMAS" -> COMMAS(s, i)
      [] pattern = "DUPLICATE_QUOTES" -> DUPLICATE_QUOTES(s, i)
      [] pattern = "MULTIPLE_NEWLINES" -> MULTIPLE_NEWLINES(s, i)
      [] pattern = "DASHES" -> DASHES(s, i)
      [] pattern = "QUOTES" -> QUOTES(s, i)
      [] pattern = "PLACEHOLDER_TAGS" -> PLACEHOLDER_TAGS(s, i)
      [] pattern = "PUNCTUATION" -> PUNCTUATION(s, i)
      [] pattern = "UNDERSCORE_NAME" -> UNDERSCORE_NAME(s, i)
      [] pattern = "RIGHT_HEAVY_DASHED_PARENTHETICALS" ->
             RIGHT_HEAVY_DASHED_PARENTHETICALS(s, i)
      [] pattern = "BAD_LINKS" -> BAD_LINKS(s, i)
      [] pattern = "EMPTY_BRACKETS" -> EMPTY_BRACKETS(s, i)
      [] pattern = "EMPTY_COMMAS" -> EMPTY_COMMAS(s, i)
      [] pattern = "LONE_COMMA_LEFT" -> LONE_COMMA_LEFT(s, i)
      [] pattern = "LONE_COMMA_RIGHT" -> LONE_COMMA_RIGHT(s, i)

\* pattern.sub(repl, text): none of the patterns matches the empty string; the matches
\* are taken left to right and do not overlap, and what a replacement produced is not
\* scanned again
Sub(text, pattern, repl) ==
    LET out[i \in 0..Len(text)] ==
            IF i >= Len(text) THEN ""
            ELSE LET e == MatchEnd(pattern, text, i)
                 IN  IF e > i THEN repl \o out[e] ELSE At(text, i) \o out[i + 1]
    IN  out[0]

\* the "One-time" statements
OneTime(text) ==
    LET t1 == replace(text, "\t", " ")
        t2 == replace(t1, NBSP, " ")
        t3 == Sub(t2, "DASHES", "-")
        t4 == Sub(t3, "QUOTES", "\"")
    IN  Sub(t4, "PLACEHOLDER_TAGS", "")

\* one pass of the body of the while loop
Pass(text) ==
    LET t1 == Sub(text, "SPACES", " ")
        t2 == Sub(t1, "DOTS", "...")
        t3 == Sub(t2, "PUNCTUATION", "\n")
        t4 == Sub(t3, "UNDERSCORE_NAME", "")
        t5 == Sub(t4, "RIGHT_HEAVY_DASHED_PARENTHETICALS", "")
        t6 == Sub(t5, "BAD_LINKS", "")
        t7 == Sub(t6, "DUPLICATE_QUOTES", "\"")
        t8 == Sub(t7, "EMPTY_BRACKETS", "")
        t9 == replace(t8, "..", ".")
        t10 == replace(replace(Sub(t9, "COMMAS", ","), ",.", "."), ".,.", ".")
        t11 == Sub(t10, "EMPTY_COMMAS", ",")
        t12 == Sub(t11, "LONE_COMMA_LEFT", "(")
        t13 == Sub(t12, "LONE_COMMA_RIGHT", ")")
        t14 == replace(t13, " .", ".")
        t15 == replace(t14, " ,", ",")
    IN  Sub(t15, "MULTIPLE_NEWLINES", "\n")

\* the texts that reach the final cleanup: up to MaxFragments pieces, each the material
\* of one of the substitutions
MaxFragments == 3

Fragments ==
    {" ", "\t", NBSP, DashChar, " - ", QuoteChar, "\"", "<<MATH>", ">_", "<<CODE>>_1",
     ".", "..", ",", "(", ")", "[]", "\n", "__", "a", "\na|b", "\na:b"}

RECURSIVE FragmentTexts(_)
FragmentTexts(n) ==
    IF n = 0 THEN {""}
    ELSE LET shorter == FragmentTexts(n - 1)
         IN  shorter \cup {t \o f : t \in shorter, f \in Fragments}

CleanupTexts == FragmentTexts(MaxFragments)

InitCleanup ==
    /\ ScanIdle
    /\ NestIdle
    /\ SpanIdle
    /\ UnescIdle
    /\ CompIdle
    /\ cl_in \in CleanupTexts
    /\ cl_text = cl_in
    /\ cl_old = -1
    /\ cl_new = 0
    /\ cl_run = 1
    /\ cl_first = None
    /\ cl_pc = "onetime"

\* the one-time statements, then old_text_len = -1 and new_text_len = 0
CleanupOneTime ==
    /\ cl_pc = "onetime"
    /\ cl_text' = OneTime(cl_text)
    /\ cl_old' = -1
    /\ cl_new' = 0
    /\ cl_pc' = "loop"
    /\ UNCHANGED <<cl_in, cl_run, cl_first>>
    /\ UNCHANGED notClean

\* while old_text_len != new_text_len: one pass of the body
CleanupPass ==
    /\ cl_pc = "loop"
    /\ cl_old # cl_new
    /\ cl_old' = Len(cl_text)
    /\ cl_text' = Pass(cl_text)
    /\ cl_new' = Len(cl_text')
    /\ UNCHANGED <<cl_in, cl_run, cl_first, cl_pc>>
    /\ UNCHANGED notClean

\* the loop is left: return text
CleanupReturn ==
    /\ cl_pc = "loop"
    /\ cl_old = cl_new
    /\ cl_pc' = "done"
    /\ cl_first' = IF cl_run = 1 THEN Some(cl_text) ELSE cl_first
    /\ UNCHANGED <<cl_in, cl_text, cl_old, cl_new, cl_run>>
    /\ UNCHANGED notClean

\* the cleanup is run again, on the text it returned
CleanupAgain ==
    /\ cl_pc = "done"
    /\ cl_run = 1
    /\ cl_run' = 2
    /\ cl_pc' = "onetime"
    /\ UNCHANGED <<cl_in, cl_text, cl_old, cl_new, cl_first>>
    /\ UNCHANGED notClean

NextCleanup ==
    \/ CleanupOneTime
    \/ CleanupPass
    \/ CleanupReturn
    \/ CleanupAgain

SpecCleanup == InitCleanup /\ [][NextCleanup]_vars

----------------------------------------------------------------------------
(* The final cleanup of clean, run on its own output.                      *)

\* C5: the final cleanup is idempotent: when the cleanup is run on the text it returned,
\* it returns that text unchanged.
C5_CleanupIdempotent ==
    (cl_pc = "done" /\ cl_run = 2) => Some(cl_text) = cl_first

\* what does hold of the text the cleanup returns: a further pass of the loop body leaves
\* it as it is (every substitution of the body shortens the text it matches in, so a pass
\* that kept the length changed nothing), and so do the first four one-time statements
CleanupLoopAtFixedPoint ==
    cl_pc = "done" =>
        /\ Pass(cl_text) = cl_text
        /\ Sub(Sub(replace(replace(cl_text, "\t", " "), NBSP, " "), "DASHES", "-"),
               "QUOTES", "\"") = cl_text

\* the second cleanup changes a text only by way of PLACEHOLDER_TAGS: the text the first
\* cleanup returned holds a placeholder marker, put together by the removal of what
\* stood inside it (by PLACEHOLDER_TAGS itself or by a substitution of the loop)
SecondCleanupStripsMarker ==
    (cl_pc = "done" /\ cl_run = 2 /\ Some(cl_text) # cl_first) =>
        \E i \in 0..Len(cl_first[1]) : PLACEHOLDER_TAGS(cl_first[1], i) > i

----------------------------------------------------------------------------
(* compact: the pending headers when a heading is recorded and when they   *)
(* are flushed.                                                            *)

\* the loop of compact is about to read a line that takes the given arm
AboutToRead(arm) ==
    /\ co_pc = "loop"
    /\ co_i < Len(co_lines)
    /\ ArmTable[co_lines[co_i + 1]] = arm

\* the level of the heading about to be read
ReadLevel == SectionTable[co_lines[co_i + 1]].lev

\* how many pending headers lie at a shallower level than l
RankOf(l) == Cardinality({j \in DOMAIN co_headers : j < l})

\* C11: right after a heading of level L is recorded, the pending headers hold the new
\* header at level L, no header at a level greater than L, and every header that was
\* pending at a level less than L, unchanged; and when the pending headers are flushed
\* before a body line, they are appended to the page in strictly ascending order of
\* level (the header of rank k among the pending levels is the k-th line appended),
\* followed by the body line.
C11_PendingHeadersOrdered ==
    [][ /\ AboutToRead("section") =>
            /\ ReadLevel \in DOMAIN co_headers'
            /\ co_headers'[ReadLevel]
                   = Terminated(SectionTable[co_lines[co_i + 1]].title)
            /\ \A j \in DOMAIN co_headers' : j <= ReadLevel
            /\ \A j \in DOMAIN co_headers :
                   j < ReadLevel => j \in DOMAIN co_headers' /\ co_headers'[j] = co_headers[j]
        /\ (AboutToRead("body") /\ DOMAIN co_headers # {}) =>
            /\ Len(co_page') = Len(co_page) + Cardinality(DOMAIN co_headers) + 1
            /\ SubSeq(co_page', 1, Len(co_page)) = co_page
            /\ \A l \in DOMAIN co_headers :
                   co_page'[Len(co_page) + RankOf(l) + 1] = co_headers[l]
            /\ co_page'[Len(co_page')] = co_lines[co_i + 1]
      ]_vars

\* C11 witness: a heading of level 3 was recorded while headers of levels 2 and 4 were
\* pending; the level-4 header was discarded, the level-2 header kept, and the body line
\* flushed the two in ascending order of level.
C11_Witness ==
    /\ co_pc = "done"
    /\ co_lines = <<"==H==", "====J====", "=== G ===", "b.">>
    /\ co_page = <<"H.", "G.", "b.">>

====
